---- MODULE Spec2Model ----
(***************************************************************************)
(* Model of inspect_ai/util/_subprocess.py: subprocess(), its nested       *)
(* run_command() generator and run_command_timeout() wrapper, and the      *)
(* process-wide max_subprocesses setting.                                  *)
(*                                                                         *)
(* One invocation of subprocess() is a small state machine (pc) that runs  *)
(* on the asyncio event loop; its child is an operating-system process     *)
(* that runs in parallel with the loop and talks to it through three pipes.*)
(* Every await of the source is one step of the invocation; what the       *)
(* child does (read stdin, write output, exit, react to a signal) is a     *)
(* step of its own, taken or not taken at any time.  Time is counted in   *)
(* seconds on the loop's clock, for each invocation that has a timeout.    *)
(***************************************************************************)
EXTENDS Integers, Sequences, FiniteSets, TLC

\* ------------------------------------------------------------------ bounds
NumInv == 2        \* invocations of subprocess() in SpecGate
MaxCpus == 2       \* largest os.cpu_count() tried
MaxWait == 1       \* seconds counted between a call and its spawn
MaxTimeout == 1    \* largest timeout= argument tried, seconds
MaxLimit == 1      \* largest output_limit= argument tried, bytes
MaxIn == 1         \* longest input= payload, in characters or bytes
MaxOut == 3        \* most bytes a child writes to stdout
MaxErr == 1        \* most bytes a child writes to stderr
PipeCap == 1       \* bytes the stdin pipe holds
BufCap == 2        \* bytes a stdout or stderr pipe and its StreamReader hold
HighWater == 1     \* bytes the stdin transport buffers before drain() waits
ChunkSize == 2     \* stream.read(8192), scaled to the other bounds
MaxArg == 2        \* largest |n| of init_max_subprocesses(n) tried

\* ------------------------------------------------------ program constants
Grace == 2         \* asyncio.sleep(2)
SIGTERM == 15
SIGKILL == 9

NoLimit == -1      \* output_limit=None
NoTimeout == -1    \* timeout=None
NoCode == -100     \* proc.returncode is None
NoArg == -1000     \* init_max_subprocesses(None)

Inv == 1 .. NumInv

Min(a, b) == IF a <= b THEN a ELSE b

Take(s, n) == SubSeq(s, 1, Min(Len(s), n))

Drop(s, n) == SubSeq(s, Min(Len(s), n) + 1, Len(s))

\* ------------------------------------------------------------ bytes, text
\* Bytes and characters are numbers: 97 is "a" in both; 233 is the character
\* e-acute, which UTF-8 writes as the two bytes 195 169.
CharA == 97
CharE == 233
ByteLead == 195
ByteCont == 169

\* The k-th byte of the stream a, e-acute, a, e-acute, ... in UTF-8.
PatByte(k) == CASE k % 3 = 1 -> CharA
                [] k % 3 = 2 -> ByteLead
                [] OTHER -> ByteCont

PatBytes(n) == [k \in 1 .. n |-> PatByte(k)]

\* The k-th character of the text e-acute, a, e-acute, a, ...
PatChar(k) == IF k % 2 = 1 THEN CharE ELSE CharA

PatChars(n) == [k \in 1 .. n |-> PatChar(k)]

\* str.encode(): UTF-8.
RECURSIVE Encode(_)
Encode(s) == IF s = <<>> THEN <<>>
             ELSE (IF Head(s) = CharE THEN <<ByteLead, ByteCont>> ELSE <<Head(s)>>)
                  \o Encode(Tail(s))

\* Whether bytes.decode() succeeds (it raises UnicodeDecodeError otherwise).
RECURSIVE Decodable(_)
Decodable(b) == IF b = <<>> THEN TRUE
                ELSE IF Head(b) = CharA THEN Decodable(Tail(b))
                ELSE IF Head(b) = ByteLead
                     THEN Len(b) >= 2 /\ b[2] = ByteCont /\ Decodable(Drop(b, 2))
                ELSE FALSE

\* bytes.decode() of decodable bytes.
RECURSIVE Decode(_)
Decode(b) == IF b = <<>> THEN <<>>
             ELSE IF Head(b) = ByteLead THEN <<CharE>> \o Decode(Drop(b, 2))
             ELSE <<Head(b)>> \o Decode(Tail(b))

\* ------------------------------------------------------------- arguments
\* input: str | bytes | None
NoInput == [kind |-> "none", val |-> <<>>]

Inputs == {NoInput}
          \cup {[kind |-> "bytes", val |-> PatBytes(n)] : n \in 0 .. MaxIn}
          \cup {[kind |-> "str", val |-> PatChars(n)] : n \in 1 .. MaxIn}

\* A str written as its code points, not encoded.
ResolveInput_Raw(inp) == inp.val

\* input = input.encode() if isinstance(input, str) else input
ResolveInput(inp) == IF inp.kind = "str" THEN Encode(inp.val) ELSE inp.val

Limits == {NoLimit} \cup (0 .. MaxLimit)

Timeouts == {NoTimeout} \cup (0 .. MaxTimeout)

\* The arguments of one call (cwd and env do not reach this model; args is
\* a str or a list, and either form spawns the same child).
Configs == [text : BOOLEAN, input : Inputs, capture_output : BOOLEAN,
            output_limit : Limits, timeout : Timeouts]

\* The calls of SpecGate: what the concurrency gate and the timeout path need.
GateConfigs == [text : {FALSE}, input : {NoInput}, capture_output : {FALSE},
                output_limit : {NoLimit}, timeout : {NoTimeout, MaxTimeout}]

Streams == {"out", "err"}

NoResult == [kind |-> "none", success |-> FALSE, returncode |-> NoCode,
             stdout |-> <<>>, stderr |-> <<>>]

VARIABLES
    cpuCount,   \* os.cpu_count() of the host, 0 for None
    maxSub,     \* max_subprocesses_context_var
    held,       \* slots of the "subprocesses" gate that are held
    cfg,        \* cfg[i]: the arguments of invocation i
    pc,         \* pc[i]: where invocation i is
    child,      \* child[i]: [st, priv, code, term, kill] the child process
    stdinPipe,  \* bytes in the child's stdin pipe, not yet read by the child
    unsent,     \* bytes in the stdin transport's buffer, not yet in the pipe
    stdinOpen,  \* the parent's end of the stdin pipe is open
    broken,     \* the stdin transport lost its connection with bytes to send
    childIn,    \* bytes the child has read from its stdin
    childEof,   \* the child has read end-of-file on its stdin
    wrote,      \* wrote[i][s]: bytes the child has written to stream s
    pipe,       \* pipe[i][s]: bytes written to s and not yet read by the parent
    acc,        \* acc[i][s]: read_stream's output bytearray
    rd,         \* rd[i][s]: "idle", "reading" or "done": read_stream(s)
    result,     \* the ExecResult returned to the caller
    raised,     \* the exception raised to the caller, "" for none
    expired,    \* the deadline fired
    reaped,     \* await proc.wait() has returned
    sent,       \* sent[i]: the signals the parent sent, in order
    releases,   \* times the slot was released
    waited,     \* seconds from the call to the spawn, counted up to MaxWait
    run,        \* seconds since asyncio.timeout() was entered, up to the end
    slept,      \* seconds since asyncio.sleep(2) began
    warned      \* the error the timeout handler logged, "" for none

vars == <<cpuCount, maxSub, held, cfg, pc, child, stdinPipe, unsent, stdinOpen,
          broken, childIn, childEof, wrote, pipe, acc, rd, result, raised,
          expired, reaped, sent, releases, waited, run, slept, warned>>

\* st: "none", "running" or "exited"; priv: "yes" when the child runs under
\* another user, so that signalling it is refused, "no" when it does not, and
\* "?" until the first signal shows which; code: its exit status; term, kill:
\* a SIGTERM, a SIGKILL was sent to it and has not acted yet.
NoChild == [st |-> "none", priv |-> "?", code |-> NoCode, term |-> FALSE,
            kill |-> FALSE]

\* default_max_subprocesses(): os.cpu_count() is None, or a positive number.
default_max_subprocesses(cpus) == IF cpus # 0 THEN cpus ELSE 1

\* The state after the module is imported on a host whose os.cpu_count() is
\* in `cpus` (0 for None): invocations in `callers` may be called, with the
\* arguments `cfgs` gives each.
InitWith(callers, cfgs, cpus) ==
    /\ cpuCount \in cpus
    /\ maxSub = default_max_subprocesses(cpuCount)
    /\ held = 0
    /\ cfg \in cfgs
    /\ pc = [i \in Inv |-> IF i \in callers THEN "idle" ELSE "off"]
    /\ child = [i \in Inv |-> NoChild]
    /\ stdinPipe = [i \in Inv |-> <<>>]
    /\ unsent = [i \in Inv |-> <<>>]
    /\ stdinOpen = [i \in Inv |-> FALSE]
    /\ broken = [i \in Inv |-> FALSE]
    /\ childIn = [i \in Inv |-> <<>>]
    /\ childEof = [i \in Inv |-> FALSE]
    /\ wrote = [i \in Inv |-> [s \in Streams |-> 0]]
    /\ pipe = [i \in Inv |-> [s \in Streams |-> <<>>]]
    /\ acc = [i \in Inv |-> [s \in Streams |-> <<>>]]
    /\ rd = [i \in Inv |-> [s \in Streams |-> "idle"]]
    /\ result = [i \in Inv |-> NoResult]
    /\ raised = [i \in Inv |-> ""]
    /\ expired = [i \in Inv |-> FALSE]
    /\ reaped = [i \in Inv |-> FALSE]
    /\ sent = [i \in Inv |-> <<>>]
    /\ releases = [i \in Inv |-> 0]
    /\ waited = [i \in Inv |-> 0]
    /\ run = [i \in Inv |-> 0]
    /\ slept = [i \in Inv |-> 0]
    /\ warned = [i \in Inv |-> ""]

\* One call, with any arguments.
Init == InitWith({1}, {[i \in Inv |-> c] : c \in Configs}, {0})

\* NumInv concurrent calls.
InitGate == InitWith(Inv, [Inv -> GateConfigs], 0 .. MaxCpus)

\* ----------------------------------------------------------- the setting
\* The arguments of init_max_subprocesses(): None or an integer.
MaxArgs == {NoArg} \cup ((0 - MaxArg) .. MaxArg)

\* `max_subprocesses if max_subprocesses else default_max_subprocesses()`:
\* None and 0 are false, every other integer is true.
ResolveMax(n, cpus) ==
    IF n # NoArg /\ n # 0 THEN n ELSE default_max_subprocesses(cpus)

\* init_max_subprocesses(n)
InitMaxSubprocesses(n) ==
    /\ maxSub' = ResolveMax(n, cpuCount)
    /\ UNCHANGED <<cpuCount, held, cfg, pc, child, stdinPipe, unsent,
                   stdinOpen, broken, childIn, childEof, wrote, pipe, acc,
                   rd, result, raised, expired, reaped, sent, releases,
                   waited, run, slept, warned>>

\* ------------------------------------------------------ concurrency gate
\* concurrency("subprocesses", limit).__aenter__: a slot is free.
GateFree(h, limit) == h < limit

\* The gate's count once a slot is taken.
GateTake(h) == h + 1

\* The gate's count once a slot is given back.
GateGive(h) == h - 1

\* A gate left by hand after the body, with no finally: an exception keeps
\* the slot.
SlotsAfterExit_OnReturnOnly(h, exc) == IF exc = "" THEN GateGive(h) ELSE h

\* Leaving `async with concurrency(...)`: the slot is given back however the
\* body ended (exc is "" for a return, else the exception's name).
SlotsAfterExit(h, exc) == GateGive(h)

\* subprocess() ends: return res, or raise exc.
Leave(i, res, exc) ==
    /\ pc' = [pc EXCEPT ![i] = "done"]
    /\ result' = [result EXCEPT ![i] = res]
    /\ raised' = [raised EXCEPT ![i] = exc]
    /\ held' = SlotsAfterExit(held, exc)
    /\ releases' = [releases EXCEPT ![i] = @ + (held - held')]

\* The caller awaits subprocess(...).
Call(i) ==
    /\ pc[i] = "idle"
    /\ pc' = [pc EXCEPT ![i] = "acquire"]
    /\ UNCHANGED <<cpuCount, maxSub, held, cfg, child, stdinPipe, unsent,
                   stdinOpen, broken, childIn, childEof, wrote, pipe, acc, rd,
                   result, raised, expired, reaped, sent, releases, waited,
                   run, slept, warned>>

\* async with concurrency("subprocesses", max_subprocesses_context_var.get())
Acquire(i) ==
    /\ pc[i] = "acquire"
    /\ GateFree(held, maxSub)
    /\ held' = GateTake(held)
    /\ pc' = [pc EXCEPT ![i] = "spawn"]
    /\ UNCHANGED <<cpuCount, maxSub, cfg, child, stdinPipe, unsent, stdinOpen,
                   broken, childIn, childEof, wrote, pipe, acc, rd, result,
                   raised, expired, reaped, sent, releases, waited, run,
                   slept, warned>>

\* `if timeout is not None:`, which takes 0 for a deadline.
HasTimeout_NotNone(c) == c.timeout # NoTimeout

\* `if timeout:` is true of a positive timeout, false of None and of 0.
HasTimeout(c) == c.timeout # NoTimeout /\ c.timeout # 0

\* A deadline that comes a second late.
Deadline_Late(c, t) == t >= c.timeout + 1

\* The deadline of asyncio.timeout(timeout) has come, t seconds after it was
\* entered.
Deadline(c, t) == t >= c.timeout

\* await asyncio.create_subprocess_exec/shell(...) returned a process: the
\* child runs, its stdin is piped, and run_command_timeout() enters
\* asyncio.timeout() when a timeout is given.
SpawnOk(i) ==
    /\ pc[i] = "spawn"
    /\ child' = [child EXCEPT ![i] = [NoChild EXCEPT !.st = "running"]]
    /\ stdinOpen' = [stdinOpen EXCEPT ![i] = TRUE]
    /\ run' = [run EXCEPT ![i] = 0]
    /\ pc' = [pc EXCEPT ![i] = "stdin"]
    /\ UNCHANGED <<cpuCount, maxSub, held, cfg, stdinPipe, unsent, broken,
                   childIn, childEof, wrote, pipe, acc, rd, result, raised,
                   expired, reaped, sent, releases, waited, slept, warned>>

\* What create_subprocess_exec/shell() raises when it cannot start the
\* program: FileNotFoundError, PermissionError, NotADirectoryError, ...
SpawnError == "OSError"

\* await asyncio.create_subprocess_exec/shell(...) raised (no such program,
\* no permission, no such cwd): no child exists and the error reaches the
\* caller through run_command_timeout() and the gate.
SpawnFail(i) ==
    /\ pc[i] = "spawn"
    /\ Leave(i, NoResult, SpawnError)
    /\ UNCHANGED <<cpuCount, maxSub, cfg, child, stdinPipe, unsent, stdinOpen,
                   broken, childIn, childEof, wrote, pipe, acc, rd, expired,
                   reaped, sent, waited, run, slept, warned>>

ReadEndClosed(i) == child[i].st = "exited"

\* ------------------------------------------------------------ the child
\* The child exits with status code: its ends of the pipes close.  Bytes in
\* the stdin pipe are lost; bytes the transport still had to send make the
\* transport fail with BrokenPipeError.
Exited(i, code) ==
    /\ child' = [child EXCEPT ![i] = [@ EXCEPT !.st = "exited", !.code = code,
                                               !.term = FALSE, !.kill = FALSE]]
    /\ stdinPipe' = [stdinPipe EXCEPT ![i] = <<>>]
    /\ unsent' = [unsent EXCEPT ![i] = <<>>]
    /\ broken' = [broken EXCEPT ![i] = @ \/ unsent[i] # <<>>]

\* Exit statuses a child chooses.
ExitCodes == {0, 3}

\* The child exits of its own accord.
ChildExit(i) ==
    /\ child[i].st = "running"
    /\ \E code \in ExitCodes : Exited(i, code)
    /\ UNCHANGED <<cpuCount, maxSub, held, cfg, pc, stdinOpen, childIn,
                   childEof, wrote, pipe, acc, rd, result, raised, expired,
                   reaped, sent, releases, waited, run, slept, warned>>

\* A signal acts on the child: SIGKILL ends it; SIGTERM ends it unless the
\* child handles or ignores SIGTERM.
ChildSignal(i) ==
    /\ child[i].st = "running"
    /\ \/ child[i].kill /\ Exited(i, -SIGKILL)
       \/ child[i].term /\ Exited(i, -SIGTERM)
       \/ /\ child[i].term
          /\ child' = [child EXCEPT ![i].term = FALSE]
          /\ UNCHANGED <<stdinPipe, unsent, broken>>
    /\ UNCHANGED <<cpuCount, maxSub, held, cfg, pc, stdinOpen, childIn,
                   childEof, wrote, pipe, acc, rd, result, raised, expired,
                   reaped, sent, releases, waited, run, slept, warned>>

\* The child reads a byte of its stdin, or end-of-file once the parent has
\* closed its end and the pipe is empty.  (What the child reads and writes
\* after the call has ended reaches nobody, and is left out.)
ChildRead(i) ==
    /\ child[i].st = "running"
    /\ pc[i] # "done"
    /\ ~childEof[i]
    /\ \/ /\ stdinPipe[i] # <<>>
          /\ childIn' = [childIn EXCEPT ![i] = Append(@, Head(stdinPipe[i]))]
          /\ stdinPipe' = [stdinPipe EXCEPT ![i] = Tail(@)]
          /\ UNCHANGED childEof
       \/ /\ stdinPipe[i] = <<>> /\ ~stdinOpen[i]
          /\ childEof' = [childEof EXCEPT ![i] = TRUE]
          /\ UNCHANGED <<childIn, stdinPipe>>
    /\ UNCHANGED <<cpuCount, maxSub, held, cfg, pc, child, unsent, stdinOpen,
                   broken, wrote, pipe, acc, rd, result, raised, expired,
                   reaped, sent, releases, waited, run, slept, warned>>

\* Most bytes a child writes to stream s.
MaxWrite(s) == IF s = "out" THEN MaxOut ELSE MaxErr

\* The child writes the next byte to stdout or stderr.  A captured stream is
\* a pipe, which takes the byte only when it has room; a stream that is not
\* captured is the parent's own, and takes every byte.
ChildWrite(i, s) ==
    /\ child[i].st = "running"
    /\ pc[i] # "done"
    /\ wrote[i][s] < MaxWrite(s)
    /\ wrote' = [wrote EXCEPT ![i][s] = @ + 1]
    /\ IF cfg[i].capture_output
       THEN /\ Len(pipe[i][s]) < BufCap
            /\ pipe' = [pipe EXCEPT ![i][s] = Append(@, PatByte(wrote[i][s] + 1))]
       ELSE UNCHANGED pipe
    /\ UNCHANGED <<cpuCount, maxSub, held, cfg, pc, child, stdinPipe, unsent,
                   stdinOpen, broken, childIn, childEof, acc, rd, result,
                   raised, expired, reaped, sent, releases, waited, run,
                   slept, warned>>

\* ------------------------------------------------------------ signalling
\* What proc.terminate() or proc.kill() does to child c: nothing when the
\* child has exited (or ProcessLookupError when its transport is closed
\* too), PermissionError when the child runs under another user, else the
\* signal is sent.
SignalOutcomes(c) ==
    IF c.st = "exited" THEN {"noop", "ProcessLookupError"}
    ELSE {"PermissionError" : x \in {c.priv} \ {"no"}}
         \cup {"sent" : x \in {c.priv} \ {"yes"}}

\* Child c after proc.terminate() (sig = SIGTERM) or proc.kill() (SIGKILL)
\* with outcome o.
Signalled(c, sig, o) ==
    CASE o = "sent" -> IF sig = SIGKILL THEN [c EXCEPT !.kill = TRUE, !.priv = "no"]
                       ELSE [c EXCEPT !.term = TRUE, !.priv = "no"]
      [] o = "PermissionError" -> [c EXCEPT !.priv = "yes"]
      [] OTHER -> c

\* ------------------------------------------------------------ stdin
\* proc.stdin.write(input) when input is not None, up to await drain(); else
\* proc.stdin.close(), up to await wait_closed().  The pipe takes what it has
\* room for and the transport buffers the rest; writing to a child that has
\* exited fails and leaves the error for drain().
StdinWrite(i) ==
    /\ pc[i] = "stdin"
    /\ IF cfg[i].input.kind = "none"
       THEN /\ pc' = [pc EXCEPT ![i] = "wait_closed"]
            /\ UNCHANGED <<stdinPipe, unsent, broken>>
       ELSE LET data == ResolveInput(cfg[i].input)
                room == PipeCap - Len(stdinPipe[i])
            IN /\ pc' = [pc EXCEPT ![i] = "drain"]
               /\ IF ReadEndClosed(i)
                  THEN /\ broken' = [broken EXCEPT ![i] = @ \/ data # <<>>]
                       /\ UNCHANGED <<stdinPipe, unsent>>
                  ELSE /\ stdinPipe' = [stdinPipe EXCEPT ![i] = @ \o Take(data, room)]
                       /\ unsent' = [unsent EXCEPT ![i] = Drop(data, room)]
                       /\ UNCHANGED broken
    /\ UNCHANGED <<cpuCount, maxSub, held, cfg, child, stdinOpen, childIn,
                   childEof, wrote, pipe, acc, rd, result, raised, expired,
                   reaped, sent, releases, waited, run, slept, warned>>

\* The loop sends buffered stdin bytes when the pipe has room; when the
\* child has exited the send fails, the buffer is dropped and the error is
\* left for drain() or wait_closed().
Flush(i) ==
    /\ pc[i] # "done"
    /\ unsent[i] # <<>>
    /\ IF ReadEndClosed(i)
       THEN /\ broken' = [broken EXCEPT ![i] = TRUE]
            /\ unsent' = [unsent EXCEPT ![i] = <<>>]
            /\ UNCHANGED stdinPipe
       ELSE /\ Len(stdinPipe[i]) < PipeCap
            /\ LET room == PipeCap - Len(stdinPipe[i])
               IN /\ stdinPipe' = [stdinPipe EXCEPT ![i] = @ \o Take(unsent[i], room)]
                  /\ unsent' = [unsent EXCEPT ![i] = Drop(@, room)]
            /\ UNCHANGED broken
    /\ UNCHANGED <<cpuCount, maxSub, held, cfg, pc, child, stdinOpen, childIn,
                   childEof, wrote, pipe, acc, rd, result, raised, expired,
                   reaped, sent, releases, waited, run, slept, warned>>

\* await proc.stdin.drain() raises ConnectionResetError when the connection
\* is lost: always when bytes could not be sent, and when the child has
\* exited and the loop has seen its end of the pipe close.
DrainRaises(i) ==
    /\ pc[i] = "drain"
    /\ broken[i] \/ ReadEndClosed(i)
    /\ Leave(i, NoResult, "ConnectionError")
    /\ UNCHANGED <<cpuCount, maxSub, cfg, child, stdinPipe, unsent, stdinOpen,
                   broken, childIn, childEof, wrote, pipe, acc, rd, expired,
                   reaped, sent, waited, run, slept, warned>>

\* await proc.stdin.drain() returns once the transport's buffer is at most
\* its high-water mark; then proc.stdin.close(), up to await wait_closed().
Drain(i) ==
    /\ pc[i] = "drain"
    /\ ~broken[i]
    /\ Len(unsent[i]) <= HighWater
    /\ pc' = [pc EXCEPT ![i] = "wait_closed"]
    /\ UNCHANGED <<cpuCount, maxSub, held, cfg, child, stdinPipe, unsent,
                   stdinOpen, broken, childIn, childEof, wrote, pipe, acc, rd,
                   result, raised, expired, reaped, sent, releases, waited,
                   run, slept, warned>>

\* await proc.stdin.wait_closed() raises BrokenPipeError when buffered bytes
\* could not be sent.
WaitClosedRaises(i) ==
    /\ pc[i] = "wait_closed"
    /\ broken[i]
    /\ Leave(i, NoResult, "ConnectionError")
    /\ UNCHANGED <<cpuCount, maxSub, cfg, child, stdinPipe, unsent, stdinOpen,
                   broken, childIn, childEof, wrote, pipe, acc, rd, expired,
                   reaped, sent, waited, run, slept, warned>>

\* A read_stream() that enters its loop whether or not there is a stream.
ReaderStart_Always(c) == "reading"

\* read_stream(stream) starts: `if stream is None: return bytes()`.
ReaderStart(c) == IF c.capture_output THEN "reading" ELSE "done"

\* await proc.stdin.wait_closed() returns once the buffer is sent and the
\* parent's end is closed; then asyncio.gather() starts both read_stream()s.
WaitClosed(i) ==
    /\ pc[i] = "wait_closed"
    /\ ~broken[i]
    /\ unsent[i] = <<>>
    /\ stdinOpen' = [stdinOpen EXCEPT ![i] = FALSE]
    /\ rd' = [rd EXCEPT ![i] = [s \in Streams |-> ReaderStart(cfg[i])]]
    /\ pc' = [pc EXCEPT ![i] = "reading"]
    /\ UNCHANGED <<cpuCount, maxSub, held, cfg, child, stdinPipe, unsent,
                   broken, childIn, childEof, wrote, pipe, acc, result,
                   raised, expired, reaped, sent, releases, waited, run,
                   slept, warned>>

\* ------------------------------------------------------------ reading
HasLimit(c) == c.output_limit # NoLimit

\* The limit compared with the length before the chunk was appended.
OverLimit_BeforeChunk(c, output) ==
    c.output_limit # NoLimit /\ Len(output) - ChunkSize > c.output_limit

\* `output_limit is not None and len(output) > output_limit`
OverLimit(c, output) == HasLimit(c) /\ Len(output) > c.output_limit

\* chunk = await stream.read(8192): the bytes at hand, at most a chunk.
ReadChunk(bytes) == Take(bytes, ChunkSize)

\* One turn of read_stream(s)'s loop with bytes at hand: read a chunk, append
\* it, and when the limit is exceeded proc.kill() and break.  An error of
\* proc.kill() leaves read_stream(), gather() and subprocess().
ReadData(i, s) ==
    /\ pc[i] = "reading"
    /\ rd[i][s] = "reading"
    /\ pipe[i][s] # <<>>
    /\ LET chunk == ReadChunk(pipe[i][s])
           output == acc[i][s] \o chunk
       IN /\ pipe' = [pipe EXCEPT ![i][s] = Drop(@, Len(chunk))]
          /\ acc' = [acc EXCEPT ![i][s] = output]
          /\ IF OverLimit(cfg[i], output)
             THEN /\ sent' = [sent EXCEPT ![i] = Append(@, SIGKILL)]
                  /\ \E o \in SignalOutcomes(child[i]) :
                       /\ child' = [child EXCEPT ![i] = Signalled(@, SIGKILL, o)]
                       /\ IF o \in {"sent", "noop"}
                          THEN /\ rd' = [rd EXCEPT ![i][s] = "done"]
                               /\ UNCHANGED <<pc, result, raised, held,
                                              releases>>
                          ELSE /\ Leave(i, NoResult, o)
                               /\ UNCHANGED rd
             ELSE UNCHANGED <<sent, child, rd, pc, result, raised, held,
                              releases>>
    /\ UNCHANGED <<cpuCount, maxSub, cfg, stdinPipe, unsent, stdinOpen,
                   broken, childIn, childEof, wrote, expired, reaped, waited,
                   run, slept, warned>>

\* Readers run one after the other: stderr is read to its end only once
\* stdout has been.
ReadEof_AfterStdout(i, s) ==
    /\ pc[i] = "reading"
    /\ rd[i][s] = "reading"
    /\ s = "err" => rd[i]["out"] = "done"
    /\ pipe[i][s] = <<>>
    /\ child[i].st = "exited"
    /\ rd' = [rd EXCEPT ![i][s] = "done"]
    /\ UNCHANGED <<cpuCount, maxSub, held, cfg, pc, child, stdinPipe, unsent,
                   stdinOpen, broken, childIn, childEof, wrote, pipe, acc,
                   result, raised, expired, reaped, sent, releases, waited,
                   run, slept, warned>>

\* One turn of read_stream(s)'s loop at end-of-file (the child has exited and
\* the pipe is empty): `if not chunk: break`.
ReadEof(i, s) ==
    /\ pc[i] = "reading"
    /\ rd[i][s] = "reading"
    /\ pipe[i][s] = <<>>
    /\ child[i].st = "exited"
    /\ rd' = [rd EXCEPT ![i][s] = "done"]
    /\ UNCHANGED <<cpuCount, maxSub, held, cfg, pc, child, stdinPipe, unsent,
                   stdinOpen, broken, childIn, childEof, wrote, pipe, acc,
                   result, raised, expired, reaped, sent, releases, waited,
                   run, slept, warned>>

\* asyncio.gather() returns once both read_stream()s have; then
\* await proc.wait().
Gathered(i) ==
    /\ pc[i] = "reading"
    /\ \A s \in Streams : rd[i][s] = "done"
    /\ pc' = [pc EXCEPT ![i] = "wait"]
    /\ UNCHANGED <<cpuCount, maxSub, held, cfg, child, stdinPipe, unsent,
                   stdinOpen, broken, childIn, childEof, wrote, pipe, acc, rd,
                   result, raised, expired, reaped, sent, releases, waited,
                   run, slept, warned>>

\* ------------------------------------------------------------ the result
\* A child killed by a signal (a negative status) taken for a failure only.
Success_NonNegative(returncode) == returncode >= 0

\* success = returncode == 0
Success(returncode) == returncode = 0

\* The ExecResult run_command() yields: text or bytes, empty when the output
\* was not captured.
MakeResult(c, returncode, stdout, stderr) ==
    [kind |-> IF c.text THEN "ExecResult[str]" ELSE "ExecResult[bytes]",
     success |-> Success(returncode),
     returncode |-> returncode,
     stdout |-> IF ~c.capture_output THEN <<>>
                ELSE IF c.text THEN Decode(stdout) ELSE stdout,
     stderr |-> IF ~c.capture_output THEN <<>>
                ELSE IF c.text THEN Decode(stderr) ELSE stderr]

\* stdout.decode() or stderr.decode() raises UnicodeDecodeError.
DecodeRaises(c, stdout, stderr) ==
    c.text /\ c.capture_output /\ ~(Decodable(stdout) /\ Decodable(stderr))

\* await proc.wait() returns the exit status of the child that has exited;
\* run_command() yields the ExecResult, which run_command_timeout() and
\* subprocess() return, unless decoding the output raises.
ProcWait(i) ==
    /\ pc[i] = "wait"
    /\ child[i].st = "exited"
    /\ reaped' = [reaped EXCEPT ![i] = TRUE]
    /\ IF DecodeRaises(cfg[i], acc[i]["out"], acc[i]["err"])
       THEN Leave(i, NoResult, "UnicodeDecodeError")
       ELSE Leave(i, MakeResult(cfg[i], child[i].code, acc[i]["out"], acc[i]["err"]), "")
    /\ UNCHANGED <<cpuCount, maxSub, cfg, child, stdinPipe, unsent, stdinOpen,
                   broken, childIn, childEof, wrote, pipe, acc, rd, expired,
                   sent, waited, run, slept, warned>>

\* ------------------------------------------------------------ the timeout
\* The spawn inside asyncio.timeout() as well.
TimedRegion_WithSpawn == {"spawn", "drain", "wait_closed", "reading", "wait"}

\* A deadline that covers the stdin write only.
TimedRegion_StdinOnly == {"drain", "wait_closed"}

\* A deadline that is dropped before `await proc.wait()`.
TimedRegion_NoWait == {"drain", "wait_closed", "reading"}

\* Where run_command() is suspended inside asyncio.timeout(): its awaits.
TimedRegion == {"drain", "wait_closed", "reading", "wait"}

\* The deadline of invocation i has come and its pipeline has not finished.
Due(i) == /\ pc[i] \in TimedRegion
          /\ HasTimeout(cfg[i])
          /\ Deadline(cfg[i], run[i])

\* A handler that ends without raising.
TimeoutRaises_Nothing == ""

\* The exception run_command_timeout() raises after it has dealt with the
\* child that timed out.
TimeoutRaises == "TimeoutError"

\* The exception proc.terminate() or proc.kill() raised with outcome o, ""
\* for none.
SignalError(o) == IF o \in {"sent", "noop"} THEN "" ELSE o

\* A handler that lets the error of terminate() or kill() reach the caller.
HandlerRaises_Reraise(err) == IF err = "" THEN "TimeoutError" ELSE err

\* What the handler raises when its try block ended with error err ("" for
\* none): `except Exception` logs err, and `raise TimeoutError` follows.
HandlerRaises(err) == TimeoutRaises

\* The deadline fires: run_command() is cancelled where it waits, and the
\* handler calls proc.terminate().  An error of it is logged and swallowed
\* and TimeoutError raised at once; else await asyncio.sleep(2).
Timeout(i) ==
    /\ Due(i)
    /\ expired' = [expired EXCEPT ![i] = TRUE]
    /\ slept' = [slept EXCEPT ![i] = 0]
    /\ sent' = [sent EXCEPT ![i] = Append(@, SIGTERM)]
    /\ \E o \in SignalOutcomes(child[i]) :
         /\ child' = [child EXCEPT ![i] = Signalled(@, SIGTERM, o)]
         /\ IF SignalError(o) = ""
            THEN /\ pc' = [pc EXCEPT ![i] = "terminating"]
                 /\ UNCHANGED <<result, raised, held, releases, warned>>
            ELSE /\ warned' = [warned EXCEPT ![i] = SignalError(o)]
                 /\ Leave(i, NoResult, HandlerRaises(SignalError(o)))
    /\ UNCHANGED <<cpuCount, maxSub, cfg, stdinPipe, unsent, stdinOpen,
                   broken, childIn, childEof, wrote, pipe, acc, rd, reaped,
                   waited, run>>

\* asyncio.sleep(2) of invocation i is over.
Woken(i) == pc[i] = "terminating" /\ slept[i] >= Grace

\* A handler that does not look at proc.returncode before proc.kill().
ReturncodeIsNone_Always(c) == TRUE

\* `proc.returncode is None`: the child has not been seen to exit.
ReturncodeIsNone(c) == c.st # "exited"

\* After the sleep: proc.kill() if the child has not exited (an error of it
\* is logged and swallowed), then raise TimeoutError.
GraceOver(i) ==
    /\ Woken(i)
    /\ IF ReturncodeIsNone(child[i])
       THEN /\ sent' = [sent EXCEPT ![i] = Append(@, SIGKILL)]
            /\ \E o \in SignalOutcomes(child[i]) :
                 /\ child' = [child EXCEPT ![i] = Signalled(@, SIGKILL, o)]
                 /\ warned' = [warned EXCEPT ![i] =
                                 IF SignalError(o) = "" THEN @ ELSE SignalError(o)]
                 /\ Leave(i, NoResult, HandlerRaises(SignalError(o)))
       ELSE /\ UNCHANGED <<sent, child, warned>>
            /\ Leave(i, NoResult, HandlerRaises(""))
    /\ UNCHANGED <<cpuCount, maxSub, cfg, stdinPipe, unsent, stdinOpen,
                   broken, childIn, childEof, wrote, pipe, acc, rd, expired,
                   reaped, waited, run, slept>>

\* ------------------------------------------------------------ time
Active(i) == pc[i] \notin {"off", "idle", "done"}

\* Invocation i is at a step that waits for nothing: taking a free slot, or
\* the code between two awaits.
Immediate(i) == \/ pc[i] = "acquire" /\ GateFree(held, maxSub)
                \/ pc[i] = "stdin"

\* Where a call waits for its slot or for its child to be spawned.
BeforeSpawn == {"acquire", "spawn"}

\* A second passes.  The loop runs a timer when it falls due and a step that
\* waits for nothing at once, so no second passes while a deadline, a sleep
\* or such a step is due.  Only a call with a timeout reads the clock, and
\* its seconds alone are counted.
Tick ==
    /\ \A i \in Inv : ~Due(i) /\ ~Woken(i) /\ ~Immediate(i)
    /\ waited' = [i \in Inv |->
                    IF pc[i] \in BeforeSpawn /\ HasTimeout(cfg[i])
                    THEN Min(waited[i] + 1, MaxWait) ELSE waited[i]]
    /\ run' = [i \in Inv |->
                 IF HasTimeout(cfg[i]) /\ pc[i] \in TimedRegion \cup {"terminating"}
                 THEN run[i] + 1 ELSE run[i]]
    /\ slept' = [i \in Inv |->
                   IF pc[i] = "terminating" THEN slept[i] + 1 ELSE slept[i]]
    /\ <<waited', run', slept'>> # <<waited, run, slept>>
    /\ UNCHANGED <<cpuCount, maxSub, held, cfg, pc, child, stdinPipe, unsent,
                   stdinOpen, broken, childIn, childEof, wrote, pipe, acc, rd,
                   result, raised, expired, reaped, sent, releases, warned>>

\* ------------------------------------------------------------ the system
Next ==
    \/ \E i \in Inv :
         \/ Call(i)
         \/ Acquire(i)
         \/ SpawnOk(i)
         \/ SpawnFail(i)
         \/ StdinWrite(i)
         \/ Flush(i)
         \/ DrainRaises(i)
         \/ Drain(i)
         \/ WaitClosedRaises(i)
         \/ WaitClosed(i)
         \/ \E s \in Streams : ReadData(i, s) \/ ReadEof(i, s) \/ ChildWrite(i, s)
         \/ Gathered(i)
         \/ ProcWait(i)
         \/ Timeout(i)
         \/ GraceOver(i)
         \/ ChildExit(i)
         \/ ChildSignal(i)
         \/ ChildRead(i)
    \/ Tick

\* One call of subprocess() with any arguments, and its child.
Spec == Init /\ [][Next]_vars

\* The arguments of a call with a positive timeout.
TimedConfigs == {c \in Configs : HasTimeout(c)}

InitTimed == InitWith({1}, {[i \in Inv |-> c] : c \in TimedConfigs}, {0})

\* What the event loop owes a call with a timeout: its clock advances, a
\* timer that is due (the deadline, the sleep) is run, and so is a step that
\* waits for nothing.  The child owes nothing: it may never read, write or
\* exit.
FairTimed ==
    /\ WF_vars(Tick)
    /\ \A i \in Inv : /\ WF_vars(StdinWrite(i))
                      /\ WF_vars(Timeout(i))
                      /\ WF_vars(GraceOver(i))

\* One call of subprocess() with a positive timeout, on a loop that runs.
SpecTimed == InitTimed /\ [][Next]_vars /\ FairTimed

\* The arguments of a call with no timeout and no limit, in bytes mode.
FlowConfigs == [text : {FALSE}, input : Inputs, capture_output : BOOLEAN,
                output_limit : {NoLimit}, timeout : {NoTimeout}]

InitFlow == InitWith({1}, {[i \in Inv |-> c] : c \in FlowConfigs}, {0})

\* A child that writes all its output before it reads its stdin.
ChildReadLast(i) ==
    /\ \A s \in Streams : wrote[i][s] = MaxWrite(s)
    /\ ChildRead(i)

\* A child that exits once it has read its stdin to end-of-file.
ChildExitLast(i) == childEof[i] /\ ChildExit(i)

\* The steps of a call with no timeout whose child writes MaxOut and MaxErr
\* bytes, then reads its stdin to end-of-file, then exits.
NextFlow ==
    \E i \in Inv :
      \/ Call(i)
      \/ Acquire(i)
      \/ SpawnOk(i)
      \/ SpawnFail(i)
      \/ StdinWrite(i)
      \/ Flush(i)
      \/ Drain(i)
      \/ WaitClosed(i)
      \/ \E s \in Streams : ReadData(i, s) \/ ReadEof(i, s) \/ ChildWrite(i, s)
      \/ Gathered(i)
      \/ ProcWait(i)
      \/ ChildReadLast(i)
      \/ ChildExitLast(i)

\* The loop runs every step of the call that can be run, and the child
\* every step of its program that its pipes allow.
FairFlow ==
    \A i \in Inv :
      /\ WF_vars(StdinWrite(i)) /\ WF_vars(Flush(i)) /\ WF_vars(Drain(i))
      /\ WF_vars(WaitClosed(i)) /\ WF_vars(Gathered(i)) /\ WF_vars(ProcWait(i))
      /\ \A s \in Streams : /\ WF_vars(ReadData(i, s))
                             /\ WF_vars(ReadEof(i, s))
                             /\ WF_vars(ChildWrite(i, s))
      /\ WF_vars(ChildReadLast(i)) /\ WF_vars(ChildExitLast(i))

SpecFlow == InitFlow /\ [][NextFlow]_vars /\ FairFlow

\* The steps of calls that pass no input and capture no output.
NextGate ==
    \/ \E i \in Inv :
         \/ Call(i)
         \/ Acquire(i)
         \/ SpawnOk(i)
         \/ SpawnFail(i)
         \/ StdinWrite(i)
         \/ WaitClosed(i)
         \/ Gathered(i)
         \/ ProcWait(i)
         \/ Timeout(i)
         \/ GraceOver(i)
         \/ ChildExit(i)
         \/ ChildSignal(i)
    \/ Tick

\* NumInv concurrent calls of subprocess() that share the gate.
SpecGate == InitGate /\ [][NextGate]_vars

\* The same calls, and init_max_subprocesses() called at any time with any
\* argument.
NextConfig ==
    \/ NextGate
    \/ \E n \in MaxArgs : InitMaxSubprocesses(n)

SpecConfig == InitGate /\ [][NextConfig]_vars

\* ================================================================ claims
Ended(i) == pc[i] = "done"

Returned(i) == result[i].kind # "none"

\* proc.kill() or proc.terminate() was called with signal sig.
Sent(i, sig) == \E k \in 1 .. Len(sent[i]) : sent[i][k] = sig

\* Where an invocation holds its slot: from the spawn to the teardown.
Holding == {"spawn", "stdin", "drain", "wait_closed", "reading", "wait",
            "terminating"}

\* C1: at every instant at most the configured maximum of children are
\* running (spawned and not yet exited), the children of calls that ended by
\* timeout or by an output-limit kill included.
C1_RunningChildrenWithinMax ==
    Cardinality({i \in Inv : child[i].st = "running"}) <= maxSub

\* C2: every invocation takes its slot before it spawns, holds it from the
\* spawn through the teardown and gives it back exactly once on every way
\* out; when all invocations have ended no slot is held.
C2_SlotHeldAndReleasedOnce ==
    /\ held = Cardinality({i \in Inv : pc[i] \in Holding})
    /\ held <= maxSub
    /\ \A i \in Inv :
         /\ child[i].st # "none" => pc[i] \in Holding \cup {"done"}
         /\ pc[i] \in Holding => releases[i] = 0
         /\ pc[i] \in {"off", "idle", "acquire"} => releases[i] = 0
         /\ Ended(i) => releases[i] = 1
    /\ (\A i \in Inv : ~Active(i)) => held = 0

\* C2's case: a call that timed out has ended and given its slot back.
C2_Witness ==
    /\ Ended(1) /\ raised[1] = "TimeoutError" /\ releases[1] = 1 /\ held = 0
    /\ Sent(1, SIGKILL)

\* C3: when subprocess() has raised TimeoutError, its child is not running.
C3_NoChildAfterTimeout ==
    \A i \in Inv : raised[i] = "TimeoutError" => child[i].st # "running"

\* C4 as claimed: a call that times out raises TimeoutError within T plus the
\* grace period of the call (waited is at most the time the call spent
\* before its spawn, so the sum is at most the time the call took).
C4_TimeoutWithinGraceOfCall ==
    \A i \in Inv : raised[i] = "TimeoutError" =>
        waited[i] + run[i] <= cfg[i].timeout + Grace

\* C4 as amended: a call that times out raises TimeoutError no earlier than T
\* and no later than T plus the grace period after its child was spawned,
\* and no call with a timeout is still under way later than that.
C4_TimeoutWithinGraceOfSpawn ==
    \A i \in Inv :
      /\ raised[i] = "TimeoutError" =>
           /\ run[i] >= cfg[i].timeout
           /\ run[i] <= cfg[i].timeout + Grace
      /\ HasTimeout(cfg[i]) /\ pc[i] \in TimedRegion \cup {"terminating"} =>
           run[i] <= cfg[i].timeout + Grace

\* C4's case: the child ignored SIGTERM, and TimeoutError was raised T plus
\* the grace period after the spawn.
C4_Witness ==
    /\ raised[1] = "TimeoutError"
    /\ sent[1] = <<SIGTERM, SIGKILL>>
    /\ run[1] = cfg[1].timeout + Grace
    /\ waited[1] > 0

FieldBytes(c, field) == IF c.text THEN Encode(field) ELSE field

C8_HandleReleasedOnExit ==
    \A i \in Inv : Ended(i) /\ child[i].st # "none" => reaped[i] /\ ~stdinOpen[i]

\* The bytes the child of invocation i is to find on its stdin.
Payload(i) == IF cfg[i].input.kind = "str" THEN Encode(cfg[i].input.val)
              ELSE cfg[i].input.val

IsPrefix(a, b) == Len(a) <= Len(b) /\ a = SubSeq(b, 1, Len(a))

\* C9: the child finds on its stdin the bytes of input and then end-of-file
\* (nothing and end-of-file when input is None); once the parent is past the
\* write, the payload is written in full and stdin is closed; no read of
\* stdout or stderr starts before stdin is closed.
C9_StdinDelivered ==
    \A i \in Inv :
      /\ IsPrefix(childIn[i] \o stdinPipe[i] \o unsent[i], Payload(i))
      /\ childEof[i] => childIn[i] = Payload(i) /\ ~stdinOpen[i]
      /\ pc[i] \in {"reading", "wait"} \/ Returned(i) =>
           /\ ~stdinOpen[i] /\ unsent[i] = <<>>
           /\ child[i].st = "running" => childIn[i] \o stdinPipe[i] = Payload(i)
      /\ (\E s \in Streams : rd[i][s] # "idle" \/ acc[i][s] # <<>>) => ~stdinOpen[i]

\* C9's case: the input was a str of two bytes in UTF-8; the child read them
\* and end-of-file, and the call returned.
C9_Witness ==
    /\ cfg[1].input.kind = "str"
    /\ childEof[1] /\ Len(childIn[1]) = 2
    /\ Returned(1)

\* C10: when the child cannot be created the call raises the spawn error,
\* not TimeoutError, and returns nothing; no signal is sent, no deadline is
\* started and no child exists, with or without a timeout; and a call that
\* ends without a child ended that way.
C10_SpawnErrorPropagates ==
    \A i \in Inv :
      /\ raised[i] = SpawnError =>
           /\ Ended(i) /\ ~Returned(i) /\ child[i].st = "none"
           /\ sent[i] = <<>> /\ ~expired[i]
           /\ run[i] = 0 /\ slept[i] = 0 /\ releases[i] = 1
      /\ Ended(i) /\ child[i].st = "none" => raised[i] = SpawnError

\* C10's case: the spawn failed in a call that had a timeout, after the
\* timeout's length had passed.
C10_Witness ==
    /\ raised[1] = SpawnError /\ HasTimeout(cfg[1])
    /\ waited[1] >= cfg[1].timeout

\* C11: with capture_output=False no read_stream() ever reads (neither
\* reader is ever in its loop and nothing is accumulated), the ExecResult
\* returned has empty stdout and stderr whatever the child wrote, and no
\* signal is sent to the child unless the deadline fired.
C11_NoCaptureNoRead ==
    \A i \in Inv : ~cfg[i].capture_output =>
      /\ \A s \in Streams : rd[i][s] # "reading" /\ acc[i][s] = <<>>
      /\ Returned(i) => result[i].stdout = <<>> /\ result[i].stderr = <<>>
      /\ ~expired[i] => sent[i] = <<>>

\* C11's case: output not captured, a limit of 0, a child that wrote all it
\* had to both streams, and the call returned.
C11_Witness ==
    /\ ~cfg[1].capture_output /\ cfg[1].output_limit = 0
    /\ wrote[1]["out"] = MaxOut /\ wrote[1]["err"] = MaxErr
    /\ Returned(1) /\ result[1].returncode = 0

\* The signals invocation i sent from its timeout handler: those from the
\* first SIGTERM on (a SIGKILL before it is read_stream()'s, for the limit).
HandlerSignals(i) ==
    IF Sent(i, SIGTERM)
    THEN LET k == CHOOSE j \in 1 .. Len(sent[i]) :
                    /\ sent[i][j] = SIGTERM
                    /\ \A m \in 1 .. j - 1 : sent[i][m] # SIGTERM
         IN SubSeq(sent[i], k, Len(sent[i]))
    ELSE <<>>

\* C12 as claimed (its last part): TimeoutError is raised only after the
\* whole sequence, the grace period included.
C12_TimeoutOnlyAfterGrace ==
    \A i \in Inv : raised[i] = "TimeoutError" => slept[i] >= Grace

\* The handler's state: it sends SIGTERM first and at most one SIGKILL after
\* it, the SIGKILL only once the grace period is over; TimeoutError is
\* raised only after SIGTERM was attempted and, unless that attempt raised
\* (and the handler logged its error), after the grace period.
C12_HandlerOrder ==
    \A i \in Inv :
      /\ expired[i] <=> Sent(i, SIGTERM)
      /\ expired[i] => HandlerSignals(i) \in {<<SIGTERM>>, <<SIGTERM, SIGKILL>>}
      /\ HandlerSignals(i) = <<SIGTERM, SIGKILL>> =>
           slept[i] >= Grace /\ raised[i] = "TimeoutError"
      /\ pc[i] = "terminating" => HandlerSignals(i) = <<SIGTERM>>
      /\ raised[i] = "TimeoutError" =>
           /\ expired[i]
           /\ \/ slept[i] >= Grace
              \/ /\ slept[i] = 0 /\ HandlerSignals(i) = <<SIGTERM>>
                 /\ warned[i] # ""

\* The handler's steps: the deadline's step sends SIGTERM and starts the
\* sleep; a later signal is a SIGKILL, sent from the sleep once it is over to
\* a child not seen to have exited, in the step that raises TimeoutError.
C12_HandlerStep ==
    \A i \in Inv :
      /\ ~expired[i] /\ expired'[i] =>
           sent'[i] = Append(sent[i], SIGTERM) /\ slept'[i] = 0
      /\ expired[i] /\ sent'[i] # sent[i] =>
           /\ sent'[i] = Append(sent[i], SIGKILL)
           /\ pc[i] = "terminating" /\ slept[i] >= Grace
           /\ child[i].st # "exited"
           /\ raised'[i] = "TimeoutError"

\* C12 as amended: graceful request first, then the grace period, then the
\* look at the exit status, and a forced kill only for a child not seen to
\* have exited; TimeoutError after that sequence, or at once when the
\* graceful request itself raised.
C12_TerminationSequence == []C12_HandlerOrder /\ [][C12_HandlerStep]_vars

\* C12's case: the limit's kill had not ended the child when the deadline
\* fired; the handler sent SIGTERM, slept, sent SIGKILL and raised.
C12_Witness ==
    /\ sent[1] = <<SIGKILL, SIGTERM, SIGKILL>>
    /\ slept[1] = Grace /\ raised[1] = "TimeoutError"

\* C13: an error that proc.terminate() or proc.kill() raised in the timeout
\* handler was logged and the call ended by raising TimeoutError, returning
\* nothing; once the deadline has fired no other exception reaches the caller.
C13_TerminationErrorsSwallowed ==
    \A i \in Inv :
      /\ warned[i] # "" =>
           /\ expired[i] /\ Ended(i) /\ ~Returned(i)
           /\ raised[i] = "TimeoutError"
      /\ expired[i] => raised[i] \in {"", "TimeoutError"}

\* C13's case: the child was gone when the handler called proc.terminate(),
\* which raised ProcessLookupError; the caller got TimeoutError.
C13_Witness ==
    /\ warned[1] = "ProcessLookupError" /\ child[1].st = "exited"
    /\ sent[1] = <<SIGTERM>> /\ raised[1] = "TimeoutError"

\* Before the deadline can exist: no slot yet, or no child yet.
C14_NotTimedBeforeSpawn ==
    \A i \in Inv :
      /\ pc[i] \in {"idle", "acquire", "spawn"} =>
           ~expired[i] /\ run[i] = 0 /\ raised[i] = ""
      /\ child[i].st = "none" => ~expired[i] /\ raised[i] # "TimeoutError"
      /\ expired[i] => HasTimeout(cfg[i]) /\ run[i] >= cfg[i].timeout

\* From the stdin write to the wait for the exit, a deadline that has come
\* can fire.
C14_TimedAfterSpawn ==
    \A i \in Inv :
      /\ HasTimeout(cfg[i]) /\ run[i] >= cfg[i].timeout
      /\ pc[i] \in {"drain", "wait_closed", "reading", "wait"}
      => ENABLED Timeout(i)

\* The deadline fires only on an invocation that holds its slot, has its
\* child, and is writing stdin, reading or waiting for the exit.
C14_DeadlineStep ==
    \A i \in Inv :
      ~expired[i] /\ expired'[i] =>
        /\ pc[i] \in {"drain", "wait_closed", "reading", "wait"}
        /\ child[i].st # "none" /\ held >= 1

\* C14: the deadline starts only after the slot was taken and the child
\* spawned; waiting for a slot or for the spawn never ends in TimeoutError,
\* however long; writing stdin, reading the streams and waiting for the exit
\* are all under the deadline.
C14_DeadlineStartsAfterSpawn ==
    /\ [](C14_NotTimedBeforeSpawn /\ C14_TimedAfterSpawn)
    /\ [][C14_DeadlineStep]_vars

\* C14's case: invocation 2 waited at least as long as its timeout before
\* its child was spawned, and then returned a result before its deadline.
C14_Witness ==
    /\ HasTimeout(cfg[2]) /\ waited[2] >= cfg[2].timeout
    /\ Returned(2) /\ run[2] < cfg[2].timeout
    /\ raised[1] = "TimeoutError"

\* C15: while the readers run, a reader whose stream has bytes at hand can
\* read them and one whose stream is at end-of-file can finish, whatever the
\* other stream and its reader are at; the two are joined only when both are
\* done: proc.wait() and the result come after both.
C15_ReadersIndependent ==
    \A i \in Inv :
      /\ \A s \in Streams :
           pc[i] = "reading" /\ rd[i][s] = "reading" =>
             /\ pipe[i][s] # <<>> => ENABLED ReadData(i, s)
             /\ pipe[i][s] = <<>> /\ child[i].st = "exited" =>
                  ENABLED ReadEof(i, s)
      /\ pc[i] = "wait" \/ Returned(i) =>
           \A s \in Streams : rd[i][s] = "done"
      /\ pc[i] \in {"stdin", "drain", "wait_closed"} =>
           \A s \in Streams : rd[i][s] = "idle"

\* C15's case: the child has written nothing to stderr and has not closed
\* it, and stdout's reader has read more than the pipe holds at once.
C15_Witness ==
    /\ pc[1] = "reading" /\ child[1].st = "running"
    /\ rd[1]["err"] = "reading" /\ wrote[1]["err"] = 0
    /\ rd[1]["out"] = "reading" /\ Len(acc[1]["out"]) > BufCap

\* A reader of invocation i has read more than output_limit bytes.
LimitExceeded(i) ==
    HasLimit(cfg[i]) /\ \E s \in Streams : Len(acc[i][s]) > cfg[i].output_limit

\* C16: an invocation whose output went over the limit, and whose deadline
\* did not fire, ends by returning an ExecResult, made after the child has
\* exited, that carries the bytes read and the exit status; it raises
\* nothing.
C16_LimitKillReturnsPartial ==
    \A i \in Inv :
      LimitExceeded(i) /\ Ended(i) /\ ~expired[i] =>
        /\ raised[i] = "" /\ Returned(i)
        /\ child[i].st = "exited" /\ result[i].returncode = child[i].code
        /\ FieldBytes(cfg[i], result[i].stdout) = acc[i]["out"]
        /\ FieldBytes(cfg[i], result[i].stderr) = acc[i]["err"]

\* C17: the configured maximum is at least 1, before and after any calls of
\* init_max_subprocesses() with None or an integer.
C17_MaxAtLeastOne == maxSub >= 1

\* C18: a call with timeout=0, like one with timeout=None, never has a
\* deadline: no clock runs for it, the handler is never entered, no SIGTERM
\* and no handler's SIGKILL is sent, and it never raises TimeoutError.
C18_ZeroTimeoutIsNone ==
    \A i \in Inv :
      cfg[i].timeout \in {0, NoTimeout} =>
        /\ ~expired[i] /\ pc[i] # "terminating"
        /\ waited[i] = 0 /\ run[i] = 0 /\ slept[i] = 0
        /\ HandlerSignals(i) = <<>> /\ warned[i] = ""
        /\ raised[i] # "TimeoutError"
        /\ ~ENABLED Timeout(i)

\* C18's case: a call with timeout=0 whose child read its input, wrote all
\* its output and exited with 0, and which returned that.
C18_Witness ==
    /\ cfg[1].timeout = 0 /\ Returned(1) /\ result[1].success
    /\ childEof[1] /\ Len(acc[1]["out"]) = MaxOut

C20_ReturnsForEveryChild ==
    \A i \in Inv : (pc[i] = "stdin") ~> Returned(i)

====
